---- MODULE Spec2Model ----
(***************************************************************************)
(* Verification model of the knawledger ingestion core:                    *)
(*   - DocumentMeta::read_from_str and its helpers (src/src/document.rs),  *)
(*   - process_files, the file batcher,                                    *)
(*   - process_directory, the recursive directory walker, driven by main,  *)
(*   - the catalog gateway (crate::db, modelled from its contract).        *)
(*                                                                         *)
(* Text is a sequence of bytes, each byte a one-character string; the two  *)
(* bytes of a two-byte UTF-8 character are written "C3" and "A9".          *)
(* Option<T> is a sequence of length 0 (None) or 1 (Some).                 *)
(***************************************************************************)
EXTENDS Integers, Sequences, FiniteSets, TLC

VARIABLES
    input,      \* parser: the text handed to read_from_str, and how it was built
    parsed      \* parser: the outcome of read_from_str, kind "None" before the call

VARIABLES
    max_threads,      \* MAX_THREADS, fixed when the process starts
    bpc,              \* process_files: where the call stands
    directory,        \* process_files: the directory argument
    file_paths,       \* process_files: the file_paths argument
    files,            \* process_files: the caller's output vector
    files_remaining,  \* process_files: the loop counter (usize)
    batches,          \* process_files: the non-empty batches of the round
    tasks,            \* process_files: one entry per spawned worker
    joined,           \* process_files: workers joined so far in the round
    rounds            \* rounds started by this call

VARIABLES
    fs,           \* the filesystem and the configured roots (never written)
    catalog,      \* the persistent store behind the gateway
    next_id,      \* the next fresh identifier the gateway hands out
    mpc,          \* main: where the process stands
    root_i,       \* main: roots whose walk was started
    stack,        \* the process_directory invocations, innermost last
    werr,         \* the Err a process_directory invocation returned, if any
    run,          \* number of the process run
    faults_left,  \* failures the environment may still inject
    calls,        \* gateway calls issued in this run
    ins,          \* per run, the insert calls issued
    clean,        \* per run, whether no failure was injected
    last          \* the last two gateway calls issued in this run

parseVars == <<input, parsed>>

walkVars ==
    <<fs, catalog, next_id, mpc, root_i, stack, werr, run, faults_left, calls,
      ins, clean, last>>

batchVars ==
    <<max_threads, bpc, directory, file_paths, files, files_remaining,
      batches, tasks, joined, rounds>>

vars == <<parseVars, batchVars, walkVars>>

\* ------------------------------------------------------------------ Option

None == <<>>

Some(x) == <<x>>

IsSome(o) == Len(o) = 1

\* ------------------------------------------------------------------ str helpers

NL == "\n"

Fence == <<"-", "-", "-">>

\* The second byte of the two-byte character: never a char boundary before it.
ContinuationBytes == {"A9"}

LeadBytes == {"C3"}

\* str::is_char_boundary
is_char_boundary(s, i) ==
    \/ i = 0
    \/ i = Len(s)
    \/ i > 0 /\ i < Len(s) /\ s[i + 1] \notin ContinuationBytes

\* &s[a..b] succeeds (no panic): ordered, in range, on char boundaries.
slice_ok(s, a, b) ==
    /\ a <= b
    /\ b <= Len(s)
    /\ is_char_boundary(s, a)
    /\ is_char_boundary(s, b)

\* &s[a..b], Rust's 0-based half-open range.
slice(s, a, b) == SubSeq(s, a + 1, b)

\* &s[a..]
slice_from(s, a) == SubSeq(s, a + 1, Len(s))

\* str::starts_with
starts_with(s, p) ==
    /\ Len(p) <= Len(s)
    /\ SubSeq(s, 1, Len(p)) = p

\* str::find: Some(byte offset of the first occurrence) or None.
find(s, p) ==
    LET hits == {i \in 0..(Len(s) - Len(p)) : SubSeq(s, i + 1, i + Len(p)) = p}
    IN  IF hits = {} THEN None
        ELSE Some(CHOOSE i \in hits : \A j \in hits : i <= j)

\* char::is_whitespace, on the bytes of the model's alphabet.
WhiteSpace == {" ", NL, "\t"}

\* str::trim_start
trim_start(s) ==
    LET keep == {i \in 1..Len(s) : s[i] \notin WhiteSpace}
    IN  IF keep = {} THEN <<>>
        ELSE SubSeq(s, CHOOSE i \in keep : \A j \in keep : i <= j, Len(s))

\* str::trim_end
trim_end(s) ==
    LET keep == {i \in 1..Len(s) : s[i] \notin WhiteSpace}
    IN  IF keep = {} THEN <<>>
        ELSE SubSeq(s, 1, CHOOSE i \in keep : \A j \in keep : i >= j)

\* str::trim
trim(s) == trim_end(trim_start(s))

\* str::lines: split at every "\n"; a final empty piece is not a line.
RECURSIVE lines(_)
lines(s) ==
    IF s = <<>> THEN <<>>
    ELSE LET nl == find(s, <<NL>>)
         IN  IF nl = None THEN <<s>>
             ELSE <<slice(s, 0, nl[1])>> \o lines(slice_from(s, nl[1] + 1))

\* str::split_once(c): Some(<<before, after>>) at the first c, or None.
split_once(s, c) ==
    LET at == find(s, <<c>>)
    IN  IF at = None THEN None
        ELSE Some(<<slice(s, 0, at[1]), slice_from(s, at[1] + 1)>>)

\* Number of pieces of str::split(c): one more than the occurrences of c.
split_count(s, c) == Cardinality({i \in 1..Len(s) : s[i] = c}) + 1

\* ------------------------------------------------------------------ helpers of the parser

\* find_title_from_h1: the first line holding a '#' gives the title, the text
\* after that '#', trimmed.
RECURSIVE title_of_lines(_)
title_of_lines(ls) ==
    IF ls = <<>> THEN None
    ELSE LET hit == split_once(trim(Head(ls)), "#")
         IN  IF hit = None THEN title_of_lines(Tail(ls))
             ELSE Some(trim(hit[1][2]))

find_title_from_h1(content) == title_of_lines(lines(content))

\* calculate_reading_time: ((words / 200) as f32 * 0.60) as i32.  words / 200
\* is an integer division; the product with 0.60 truncated toward zero is
\* (6 * q) div 10 for every q the model reaches.
calculate_reading_time(content) ==
    LET words == split_count(content, " ")
    IN  (6 * (words \div 200)) \div 10

\* DocumentMeta::default()
DefaultMeta ==
    [custom_id |-> None, title |-> None, reading_time |-> None, tags |-> None]

\* ------------------------------------------------------------------ serde_yaml

(***************************************************************************)
(* serde_yaml::from_str::<DocumentMeta>, the deserialiser derived for the  *)
(* DocumentMeta struct.  The model reads the block-mapping subset of YAML: *)
(* one "key: value" per line, blank and comment lines skipped, plain       *)
(* scalars, decimal integers and flow sequences of plain scalars, and the  *)
(* empty flow mapping "{}".  The recognised keys are id, title,            *)
(* reading_time and tags; other keys are ignored; a key given twice, a     *)
(* value of the wrong shape or a line that is no mapping entry is an       *)
(* error.  A document with no content is accepted by some releases of the  *)
(* library (all fields absent) and rejected by others: both outcomes.      *)
(***************************************************************************)
KeyId == <<"i", "d">>

KeyTitle == <<"t", "i", "t", "l", "e">>

KeyReadingTime == <<"r", "e", "a", "d", "i", "n", "g", "_", "t", "i", "m", "e">>

KeyTags == <<"t", "a", "g", "s">>

Digits == {"0", "1", "2", "3", "4", "5", "6", "7", "8", "9"}

digit_value(c) ==
    CASE c = "0" -> 0 [] c = "1" -> 1 [] c = "2" -> 2 [] c = "3" -> 3
      [] c = "4" -> 4 [] c = "5" -> 5 [] c = "6" -> 6 [] c = "7" -> 7
      [] c = "8" -> 8 [] c = "9" -> 9
      [] c \in {"a", "A"} -> 10 [] c \in {"b", "B"} -> 11
      [] c \in {"c", "C"} -> 12 [] c \in {"d", "D"} -> 13
      [] c \in {"e", "E"} -> 14 [] c \in {"f", "F"} -> 15
      [] OTHER -> 16

\* The bounds of i32.
I32Min == -2147483647 - 1

I32Max == 2147483647

\* The digits of s in the radix, summed below zero so that the least i32 is
\* reached without leaving the width: Some(-value), or None when the value
\* passes the floor.
RECURSIVE parse_radix(_, _, _)
parse_radix(s, radix, floor) ==
    IF s = <<>> THEN Some(0)
    ELSE LET init == parse_radix(SubSeq(s, 1, Len(s) - 1), radix, floor)
             d == digit_value(s[Len(s)])
             x == floor + d
             least == (x \div radix) + (IF x % radix = 0 THEN 0 ELSE 1)
         IN  IF init = None \/ init[1] < least THEN None
             ELSE Some(init[1] * radix - d)

\* Bytes that may stand in a plain (unquoted) scalar of the modelled subset.
PlainBytes ==
    {"a", "b", "d", "e", "g", "i", "l", "m", "n", "r", "s", "t", "x", "y",
     "-", " ", "_", "C3", "A9"} \cup Digits

is_plain_scalar(v) ==
    /\ v # <<>>
    /\ \A i \in 1..Len(v) : v[i] \in PlainBytes
    /\ ~ (Len(v) >= 2 /\ v[1] = "-" /\ v[2] = " ")
    /\ v # <<"-">>

\* A value the resolver reads as null.
is_null_scalar(v) == v = <<>> \/ v = <<"~">> \/ v = <<"n", "u", "l", "l">>

\* Cut a trailing comment: '#' at the start of the value or after a blank.
strip_comment(v) ==
    LET hits == {i \in 1..Len(v) : v[i] = "#" /\ (i = 1 \/ v[i - 1] = " ")}
    IN  IF hits = {} THEN v
        ELSE SubSeq(v, 1, (CHOOSE i \in hits : \A j \in hits : i <= j) - 1)

\* The items of a flow sequence body "x, y": Some(<<items>>) or None if an
\* item is no plain scalar.
RECURSIVE flow_items(_)
flow_items(s) ==
    LET cut == find(s, <<",">>)
        first == trim(IF cut = None THEN s ELSE slice(s, 0, cut[1]))
    IN  IF ~ is_plain_scalar(first) THEN None
        ELSE IF cut = None THEN Some(<<first>>)
        ELSE LET rest == flow_items(slice_from(s, cut[1] + 1))
             IN  IF rest = None THEN None ELSE Some(<<first>> \o rest[1])

\* Option<Vec<String>> from a value: <<ok, option>>.
yaml_tags(v) ==
    IF is_null_scalar(v) THEN <<TRUE, None>>
    ELSE IF Len(v) >= 2 /\ v[1] = "[" /\ v[Len(v)] = "]"
    THEN LET body == trim(SubSeq(v, 2, Len(v) - 1))
         IN  IF body = <<>> THEN <<TRUE, Some(<<>>)>>
             ELSE LET items == flow_items(body)
                  IN  IF items = None THEN <<FALSE, None>>
                      ELSE <<TRUE, Some(items[1])>>
    ELSE <<FALSE, None>>

\* Option<String> from a value.
yaml_string(v) ==
    IF is_null_scalar(v) THEN <<TRUE, None>>
    ELSE IF is_plain_scalar(v) THEN <<TRUE, Some(v)>>
    ELSE <<FALSE, None>>

\* Option<i32> from a value: null, or a plain scalar the resolver reads as
\* an integer (an optional sign, then decimal digits or 0x, 0o, 0b and
\* digits of that radix; decimal digits after a leading zero make a string)
\* whose value lies in the range of i32.
yaml_i32(v) ==
    IF is_null_scalar(v) THEN <<TRUE, None>>
    ELSE LET signed == Head(v) \in {"-", "+"}
             neg == Head(v) = "-"
             unsigned == IF signed THEN Tail(v) ELSE v
             prefix == IF Len(unsigned) < 2 THEN <<>>
                       ELSE SubSeq(unsigned, 1, 2)
             radix == CASE prefix = <<"0", "x">> -> 16
                        [] prefix = <<"0", "o">> -> 8
                        [] prefix = <<"0", "b">> -> 2
                        [] OTHER -> 10
             digits == IF radix = 10 THEN unsigned
                       ELSE SubSeq(unsigned, 3, Len(unsigned))
             value == parse_radix(digits, radix,
                                  IF neg THEN I32Min ELSE - I32Max)
         IN  IF /\ digits # <<>>
                /\ \A i \in 1..Len(digits) : digit_value(digits[i]) < radix
                /\ ~ (radix = 10 /\ Len(digits) > 1 /\ Head(digits) = "0")
                /\ value # None
             THEN <<TRUE, Some(IF neg THEN value[1] ELSE - value[1])>>
             ELSE <<FALSE, None>>

\* A line that carries nothing: blank, or a comment.
yaml_blank_line(l) == trim(l) = <<>> \/ Head(trim(l)) = "#"

\* One mapping entry "key: value": [ok, key, value].
yaml_entry(l) ==
    LET t == trim(l)
        colon == find(t, <<":">>)
    IN  IF colon = None THEN [ok |-> FALSE, key |-> <<>>, value |-> <<>>]
        ELSE LET key == slice(t, 0, colon[1])
                 rest == slice_from(t, colon[1] + 1)
             IN  [ok    |-> /\ is_plain_scalar(key)
                            /\ (rest = <<>> \/ Head(rest) = " "),
                  key   |-> key,
                  value |-> trim(strip_comment(rest))]

\* The keys that are fields of DocumentMeta.
FieldKeys == {KeyId, KeyTitle, KeyReadingTime, KeyTags}

\* Fold the entries into the struct: acc is [ok, meta, seen].  A field given
\* twice is an error of the derived visitor; a key that is no field is
\* skipped, however often it comes.
RECURSIVE yaml_fold(_, _)
yaml_fold(ls, acc) ==
    IF ls = <<>> \/ ~ acc.ok THEN acc
    ELSE IF yaml_blank_line(Head(ls)) THEN yaml_fold(Tail(ls), acc)
    ELSE LET e == yaml_entry(Head(ls))
             bad == [acc EXCEPT !.ok = FALSE]
         IN  IF ~ e.ok \/ e.key \in acc.seen THEN bad
             ELSE LET seen == acc.seen \cup ({e.key} \cap FieldKeys)
                      field ==
                          CASE e.key = KeyId -> yaml_string(e.value)
                            [] e.key = KeyTitle -> yaml_string(e.value)
                            [] e.key = KeyReadingTime -> yaml_i32(e.value)
                            [] e.key = KeyTags -> yaml_tags(e.value)
                            [] OTHER ->
                                 <<\/ yaml_string(e.value)[1]
                                   \/ yaml_tags(e.value)[1], None>>
                      meta ==
                          CASE e.key = KeyId ->
                                 [acc.meta EXCEPT !.custom_id = field[2]]
                            [] e.key = KeyTitle ->
                                 [acc.meta EXCEPT !.title = field[2]]
                            [] e.key = KeyReadingTime ->
                                 [acc.meta EXCEPT !.reading_time = field[2]]
                            [] e.key = KeyTags ->
                                 [acc.meta EXCEPT !.tags = field[2]]
                            [] OTHER -> acc.meta
                  IN  IF ~ field[1] THEN bad
                      ELSE yaml_fold(Tail(ls),
                                     [ok |-> TRUE, meta |-> meta, seen |-> seen])

\* The outcomes of serde_yaml::from_str(meta_str): a set of [ok, meta].
serde_yaml_from_str(meta_str) ==
    LET ls == lines(meta_str)
        err == [ok |-> FALSE, meta |-> DefaultMeta]
    IN  IF \A i \in 1..Len(ls) : yaml_blank_line(ls[i])
        THEN {err, [ok |-> TRUE, meta |-> DefaultMeta]}
        ELSE IF trim(meta_str) = <<"{", "}">>
        THEN {[ok |-> TRUE, meta |-> DefaultMeta]}
        ELSE LET r == yaml_fold(ls, [ok |-> TRUE, meta |-> DefaultMeta,
                                     seen |-> {}])
             IN  IF r.ok THEN {[ok |-> TRUE, meta |-> r.meta]} ELSE {err}

\* ------------------------------------------------------------------ DocumentMeta::read_from_str

\* A result of read_from_str: Ok((meta, body)), Err(SerdeYaml) or a panic of
\* a slice expression.
ResultOk(meta, body) == [kind |-> "Ok", meta |-> meta, body |-> body]

ResultErr == [kind |-> "Err", meta |-> DefaultMeta, body |-> <<>>]

ResultPanic == [kind |-> "Panic", meta |-> DefaultMeta, body |-> <<>>]

NotCalled == [kind |-> "None", meta |-> DefaultMeta, body |-> <<>>]

\* Lines 95-98: the record read_from_str starts from, title from the H1 of
\* the whole content.
initial_data(content) ==
    [DefaultMeta EXCEPT !.title = find_title_from_h1(content)]

\* Lines 100-106: content with no opening fence, or shorter than 4 bytes, is
\* returned whole.
unfenced_result(content) == ResultOk(initial_data(content), content)

\* Lines 108-110 returning the content whole, the opening fence kept.
unterminated_result_whole(content) == ResultOk(initial_data(content), content)

\* Lines 108-110: no closing fence, the opening fence is cut off.
unterminated_result(content) ==
    ResultOk(initial_data(content), slice_from(content, 3))

\* Line 113: the range of meta_str, &content[3..*end_i + 2], as <<from, to>>.
meta_range(end_i) == <<3, end_i + 2>>

\* Lines 115-117: empty meta_str, the body follows the closing fence.
empty_meta_result(content, end_i) ==
    ResultOk(initial_data(content), slice_from(content, end_i + 6))

\* Lines 123-127 with reading_time kept when the front-matter gives one.
finish_meta_keep_time(data, body) ==
    LET timed == IF data.reading_time = None
                 THEN [data EXCEPT
                         !.reading_time = Some(calculate_reading_time(body))]
                 ELSE data
    IN  IF timed.title = None
        THEN [timed EXCEPT !.title = find_title_from_h1(body)]
        ELSE timed

\* Lines 123-127: reading_time is always the estimate over the body, the
\* title is backfilled from the body when the front-matter has none.
finish_meta(data, body) ==
    LET timed == [data EXCEPT
                    !.reading_time = Some(calculate_reading_time(body))]
    IN  IF timed.title = None
        THEN [timed EXCEPT !.title = find_title_from_h1(body)]
        ELSE timed

\* Lines 119-129: the front-matter was cut out; deserialise it and finish.
read_front_matter(content, end_i, meta_str) ==
    LET body == slice_from(content, end_i + 6)
    IN  {IF y.ok THEN ResultOk(finish_meta(y.meta, body), body) ELSE ResultErr :
            y \in serde_yaml_from_str(meta_str)}

\* DocumentMeta::read_from_str: the set of outcomes on content.
read_from_str(content) ==
    IF ~ starts_with(content, Fence) THEN {unfenced_result(content)}
    ELSE IF Len(content) < 4 THEN {unfenced_result(content)}
    ELSE LET found == find(slice_from(content, 3), Fence)
         IN  IF found = None THEN {unterminated_result(content)}
             ELSE LET end_i == found[1]
                      r == meta_range(end_i)
                  IN  IF ~ slice_ok(content, r[1], r[2]) THEN {ResultPanic}
                      ELSE LET meta_str == slice(content, r[1], r[2])
                           IN  IF meta_str = <<>>
                               THEN {empty_meta_result(content, end_i)}
                               ELSE read_front_matter(content, end_i, meta_str)

\* ------------------------------------------------------------------ inputs of the parser

\* Longest raw text that does not open with a fence.
MaxShort == 3

\* Longest raw text after an opening fence.
MaxTail == 5

\* Longest run of blanks in a body: enough for MaxBlanks + 1 split tokens.
MaxBlanks == 401

\* The characters raw texts are drawn from: six one-byte characters and one
\* two-byte character.
RawChars ==
    {<<"-">>, <<NL>>, <<"#">>, <<" ">>, <<"a">>, <<"C3", "A9">>}

\* Every valid UTF-8 text of at most n bytes over RawChars.
RECURSIVE Texts(_)
Texts(n) ==
    IF n = 0 THEN {<<>>}
    ELSE LET shorter == Texts(n - 1)
         IN  shorter \cup
             {s \o c : s \in {t \in shorter : Len(t) >= n - 2}, c \in RawChars}

TextsUpTo(n) == {s \in Texts(n) : Len(s) <= n}

Blanks(n) == [i \in 1..n |-> " "]

\* The serialiser's decimal form of an i32 above the least.
RECURSIVE to_decimal(_)
to_decimal(n) ==
    LET d == <<"0", "1", "2", "3", "4", "5", "6", "7", "8", "9">>
    IN  IF n < 0 THEN <<"-">> \o to_decimal(- n)
        ELSE IF n < 10 THEN <<d[n + 1]>>
        ELSE to_decimal(n \div 10) \o <<d[(n % 10) + 1]>>

RECURSIVE join(_, _)
join(parts, sep) ==
    IF parts = <<>> THEN <<>>
    ELSE IF Len(parts) = 1 THEN parts[1]
    ELSE parts[1] \o sep \o join(Tail(parts), sep)

\* A metadata record written as YAML with the four recognised keys, one
\* "key: value" line per field that is present.
ToYaml(m) ==
    LET id_line ==
            IF m.custom_id = None THEN <<>>
            ELSE <<KeyId \o <<":", " ">> \o m.custom_id[1]>>
        title_line ==
            IF m.title = None THEN <<>>
            ELSE <<KeyTitle \o <<":", " ">> \o m.title[1]>>
        time_line ==
            IF m.reading_time = None THEN <<>>
            ELSE <<KeyReadingTime \o <<":", " ">>
                     \o to_decimal(m.reading_time[1])>>
        tags_line ==
            IF m.tags = None THEN <<>>
            ELSE <<KeyTags \o <<":", " ", "[">>
                     \o join(m.tags[1], <<",", " ">>) \o <<"]">>>>
        all == id_line \o title_line \o time_line \o tags_line
    IN  IF all = <<>> THEN <<"{", "}">> ELSE join(all, <<NL>>)

\* "---" newline M newline "---" newline B
Framed(m, b) ==
    Fence \o <<NL>> \o ToYaml(m) \o <<NL>> \o Fence \o <<NL>> \o b

\* Metadata records of the round trip.
RoundTripMetas ==
    [custom_id    : {None, Some(<<"x">>)},
     title        : {None, Some(<<"t">>), Some(<<"a", "-", "-", "-", "b">>)},
     reading_time : {None, Some(7), Some(-5), Some(I32Max)},
     tags         : {None, Some(<<>>), Some(<<<<"x">>, <<"y">>>>)}]

\* Bodies of the round trip.
RoundTripBodies ==
    {<<>>,
     <<"a">>,
     <<"#", " ", "a">>,
     <<" ", "b", NL, "a", " ", "#", " ", "t", " ", "a", NL, "#", "b">>,
     <<"-", "-", "-", NL, "a">>,
     <<"a", NL, "-", "-", "-", NL, "#", "x">>,
     Blanks(MaxBlanks - 2) \o <<"#", "a">>,
     Blanks(MaxBlanks)}

\* Scenario 4 of the specification: front-matter with no closing fence.
UnterminatedExample ==
    <<"-", "-", "-", NL, "i", "d", ":", " ", "x", NL,
      "#", " ", "t", NL, "b">>

\* Front-matter whose closing fence follows the entry without a newline.
TightExample ==
    <<"-", "-", "-", NL, "i", "d", ":", " ", "x", "y", "-", "-", "-", "a">>

\* Front-matter in which a key comes twice: a key that is no field, with a
\* field between, and the field id.
RepeatedKeyExamples ==
    {Fence \o <<NL>> \o m \o <<NL>> \o Fence \o <<NL, "a">> :
        m \in {<<"x", "x", ":", " ", "a", NL, "x", "x", ":", " ", "b">>,
               <<"x", "x", ":", " ", "a", NL, "i", "d", ":", " ", "x", NL,
                 "x", "x", ":", " ", "[", "a", ",", " ", "b", "]">>,
               <<"i", "d", ":", " ", "x", NL, "i", "d", ":", " ", "y">>}}

\* Front-matter whose reading_time is the least i32, a hexadecimal number,
\* passes the range of i32 on either side, or is no number.
ReadingTimeExamples ==
    {Fence \o <<NL>> \o KeyReadingTime \o <<":", " ">> \o v \o <<NL>> \o Fence
           \o <<NL, "a">> :
        v \in {<<"-", "2", "1", "4", "7", "4", "8", "3", "6", "4", "8">>,
               <<"0", "x", "1", "e">>,
               <<"2", "1", "4", "7", "4", "8", "3", "6", "4", "8">>,
               <<"-", "2", "1", "4", "7", "4", "8", "3", "6", "4", "9">>,
               <<"9", "9", "9", "9", "9", "9", "9", "9", "9", "9">>,
               <<"0", "7">>,
               <<"x">>}}

RawInputs ==
    TextsUpTo(MaxShort)
        \cup {Fence \o t : t \in TextsUpTo(MaxTail)}
        \cup {UnterminatedExample, TightExample}
        \cup RepeatedKeyExamples
        \cup ReadingTimeExamples

ParseInputs ==
    {[framed |-> FALSE, m |-> DefaultMeta, b |-> t] : t \in RawInputs}
        \cup [framed : {TRUE}, m : RoundTripMetas, b : RoundTripBodies]

\* The text handed to the parser.
Content == IF input.framed THEN Framed(input.m, input.b) ELSE input.b

ParseInit ==
    /\ input \in ParseInputs
    /\ parsed = NotCalled

ParseIdle ==
    /\ input = [framed |-> FALSE, m |-> DefaultMeta, b |-> <<>>]
    /\ parsed = NotCalled

\* One call of DocumentMeta::read_from_str on the input.
ReadFromStr ==
    /\ parsed.kind = "None"
    /\ parsed' \in read_from_str(Content)
    /\ UNCHANGED <<input, batchVars, walkVars>>

ParseNext == ReadFromStr


\* ------------------------------------------------------------------ claims on the parser

\* s is a suffix of t.
IsSuffix(s, t) ==
    /\ Len(s) <= Len(t)
    /\ SubSeq(t, Len(t) - Len(s) + 1, Len(t)) = s

\* The content opens with a fence and holds no further fence.
Unterminated(content) ==
    /\ starts_with(content, Fence)
    /\ find(slice_from(content, 3), Fence) = None

\* Only the title may be present in meta.
TitleOnly(meta) ==
    /\ meta.custom_id = None
    /\ meta.reading_time = None
    /\ meta.tags = None

\* C6: parser totality: on every input read_from_str returns Ok((meta, body))
\* with body a suffix of the input, or a parse error; it never aborts.
C6_ParserTotal ==
    parsed.kind # "None" =>
        /\ parsed.kind \in {"Ok", "Err"}
        /\ parsed.kind = "Ok" => IsSuffix(parsed.body, Content)

\* C7 as stated: every input that opens with a fence and holds no further
\* fence yields title-only metadata and the input less its first three bytes.
C7_UnterminatedOriginal ==
    (parsed.kind # "None" /\ Unterminated(Content)) =>
        /\ parsed.kind = "Ok"
        /\ TitleOnly(parsed.meta)
        /\ parsed.body = slice_from(Content, 3)

\* C7 amended: an input of at least four bytes that opens with a fence and
\* holds no further fence yields title-only metadata, the title being the H1
\* title of the body, and the input less its first three bytes; the input
\* that is exactly the fence is returned whole, with no metadata.
C7_Unterminated ==
    (parsed.kind # "None" /\ Unterminated(Content)) =>
        /\ parsed.kind = "Ok"
        /\ TitleOnly(parsed.meta)
        /\ Len(Content) >= 4 =>
              /\ parsed.body = slice_from(Content, 3)
              /\ parsed.meta.title = find_title_from_h1(parsed.body)
        /\ Len(Content) < 4 =>
              /\ parsed.body = Content
              /\ parsed.meta = DefaultMeta

\* C7 witness: scenario 4 was parsed: no id, the title from the H1 line, the
\* body without the opening fence.
C7_Witness ==
    /\ Content = UnterminatedExample
    /\ parsed.kind = "Ok"
    /\ parsed.meta.custom_id = None
    /\ parsed.meta.title = Some(<<"t">>)
    /\ parsed.body = Tail(Tail(Tail(UnterminatedExample)))

\* C8: whenever nothing stands between the opening and the closing fence,
\* read_from_str returns the default metadata and the body after the closing
\* fence.
C8_EmptyFrontMatter ==
    (parsed.kind # "None" /\ starts_with(Content, Fence \o Fence)) =>
        parsed = ResultOk(DefaultMeta, slice_from(Content, 6))

\* The metadata the round trip is to give back for M and body B.
RoundTripMeta(m, b) ==
    [m EXCEPT
       !.reading_time = Some(calculate_reading_time(b)),
       !.title = IF m.title = None THEN find_title_from_h1(b) ELSE m.title]

\* C9 as stated: parsing "---\nM\n---\nB" returns body B and M with the
\* reading time estimated over the body and an absent title backfilled.
C9_RoundTripOriginal ==
    (parsed.kind # "None" /\ input.framed) =>
        parsed = ResultOk(RoundTripMeta(input.m, input.b), input.b)

\* C9 amended: for M whose YAML text holds no "---", parsing "---\nM\n---\nB"
\* returns the body "\nB" (the newline that ends the closing fence line stays
\* in the body) and M with the reading time estimated over the body,
\* overriding a supplied one, and an absent title backfilled from the first
\* line of B that holds a '#'.
C9_RoundTrip ==
    (parsed.kind # "None" /\ input.framed
        /\ find(ToYaml(input.m), Fence) = None) =>
        parsed = ResultOk(RoundTripMeta(input.m, input.b), <<NL>> \o input.b)

\* C9 witness: a round trip that overrode a supplied reading time with a
\* non-zero estimate and backfilled the title from the body.
C9_Witness ==
    /\ input.framed
    /\ parsed.kind = "Ok"
    /\ input.m.reading_time = Some(7)
    /\ parsed.meta.reading_time = Some(1)
    /\ input.m.title = None
    /\ parsed.meta.title = Some(<<"a">>)
    /\ parsed.meta.tags = Some(<<<<"x">>, <<"y">>>>)
    /\ parsed.body = <<NL>> \o input.b

\* ------------------------------------------------------------------ process_files

(***************************************************************************)
(* A path handed to the batcher is a record                                *)
(*   path  : <<directory path, final segment>> as the walker enumerated it *)
(*   canon : what Path::canonicalize gives for it (differs for a symlink)  *)
(*   ok    : the file can be canonicalised, read and parsed                *)
(* A final segment is a natural number standing for the file name.  The    *)
(* pair the batcher produces is modelled by its Document half; the         *)
(* DocumentMeta half is the outcome of read_from_str and only its success  *)
(* matters here.                                                           *)
(*                                                                         *)
(* files_remaining is a usize.  It is held as an integer r that stands for *)
(* r mod 2^64: a negative r is the huge value a wrapped subtraction leaves *)
(* in a build without overflow checks, so "files_remaining > 0" is r # 0.  *)
(***************************************************************************)
FILES_PER_THREAD == 128

\* Largest MAX_THREADS of the model.
MaxThreads == 4

\* Rounds after which a call whose counter wrapped is no longer followed.
MaxRounds == 3

\* Document::name: the final segment of a path.
document_name(path) == path[2]

\* Document::new: the Document of the pair.
document_new(dir_id, name, path) ==
    [file_name |-> name, directory |-> dir_id, path |-> path]

\* Lines 345-349: the record built on the calling thread.
inline_document(dir_id, e) ==
    document_new(dir_id, document_name(e.path), e.canon)

\* Lines 310-314: the record built by a worker thread.
worker_document(dir_id, e) ==
    document_new(dir_id, document_name(e.canon), e.path)

\* Lines 268-288: the for loop over the MAX_THREADS batch slots, from slot i.
\* Each batch is a range <<start, end>> of file_paths; underflow records that
\* a subtraction from files_remaining went below zero, bad_slice that a
\* range began after its end.
RECURSIVE plan_batches(_, _, _, _, _)
plan_batches(i, total, remaining, mt, acc) ==
    LET start == i * FILES_PER_THREAD
        end == (i + 1) * FILES_PER_THREAD
        under(d) == remaining >= 0 /\ remaining - d < 0
    IN  IF i >= mt THEN [acc EXCEPT !.remaining = remaining]
        ELSE IF end > total
        THEN IF start > total
             THEN [acc EXCEPT !.bad_slice = TRUE, !.remaining = remaining]
             ELSE [batches   |-> Append(acc.batches, <<start, total>>),
                   remaining |-> remaining - (total - start),
                   underflow |-> acc.underflow \/ under(total - start),
                   bad_slice |-> FALSE]
        ELSE plan_batches(i + 1, total, remaining - FILES_PER_THREAD, mt,
                          [acc EXCEPT
                             !.batches = Append(@, <<start, end>>),
                             !.underflow = @ \/ under(FILES_PER_THREAD)])

\* The round's plan were every round to form a single batch.
round_plan_one_batch(total, remaining, mt) ==
    LET p == plan_batches(0, total, remaining, 1,
                          [batches |-> <<>>, remaining |-> remaining,
                           underflow |-> FALSE, bad_slice |-> FALSE])
    IN  [p EXCEPT !.batches = SelectSeq(p.batches, LAMBDA b : b[1] < b[2])]

\* The round's plan: lines 268-288, then line 295 drops the empty batches.
round_plan(total, remaining, mt) ==
    LET p == plan_batches(0, total, remaining, mt,
                          [batches |-> <<>>, remaining |-> remaining,
                           underflow |-> FALSE, bad_slice |-> FALSE])
    IN  [p EXCEPT !.batches = SelectSeq(p.batches, LAMBDA b : b[1] < b[2])]

\* &file_paths[start..end]
batch_paths(b) == SubSeq(file_paths, b[1] + 1, b[2])

\* The first file of paths that fails: Document::new returns Err on it (read,
\* canonicalize or YAML error) or read_from_str panics on it (line 113).
first_failure(paths) ==
    LET bad == {i \in 1..Len(paths) : ~ paths[i].ok}
    IN  paths[CHOOSE i \in bad : \A j \in bad : i <= j]

\* A worker that pushed its records last file first.
worker_result_reversed(dir_id, paths) ==
    IF \A i \in 1..Len(paths) : paths[i].ok
    THEN [state |-> "ok",
          docs  |-> [i \in 1..Len(paths) |->
                        worker_document(dir_id, paths[Len(paths) + 1 - i])]]
    ELSE [state |-> IF first_failure(paths).panics THEN "panicked" ELSE "err",
          docs  |-> <<>>]

\* Lines 307-318 and 327: what joining a worker gives for its batch:
\* Ok(Ok(all its records)), Ok(Err) of the first file that fails, or Err
\* when the worker panicked on that file.
worker_result(dir_id, paths) ==
    IF \A i \in 1..Len(paths) : paths[i].ok
    THEN [state |-> "ok",
          docs  |-> [i \in 1..Len(paths) |-> worker_document(dir_id, paths[i])]]
    ELSE [state |-> IF first_failure(paths).panics THEN "panicked" ELSE "err",
          docs  |-> <<>>]

Running == [state |-> "running", docs |-> <<>>]

\* Lines 267-297: the loop test, the batches of the round, and the choice
\* between the threaded and the in-line path.  A subtraction below zero
\* panics in a build with overflow checks and wraps in one without.
FormBatches ==
    /\ bpc = "loop"
    /\ files_remaining # 0
    /\ rounds < MaxRounds
    /\ LET p == round_plan(Len(file_paths), files_remaining, max_threads)
       IN  \/ /\ p.bad_slice \/ p.underflow
              /\ bpc' = "panic"
              /\ UNCHANGED <<files_remaining, batches, tasks>>
           \/ /\ ~ p.bad_slice
              /\ files_remaining' = p.remaining
              /\ batches' = p.batches
              /\ IF Len(p.batches) > 1
                 THEN /\ bpc' = "scope"
                      /\ tasks' = [k \in 1..Len(p.batches) |-> Running]
                 ELSE /\ bpc' = "inline"
                      /\ tasks' = <<>>
    /\ rounds' = rounds + 1
    /\ joined' = 0
    /\ UNCHANGED <<parseVars, walkVars, max_threads, directory, file_paths, files>>

\* Lines 307-318: worker k runs to its end.  Workers read their own slice
\* and write their own vector, so a worker is one step.
WorkerRun(k) ==
    /\ bpc = "scope"
    /\ tasks[k].state = "running"
    /\ tasks' = [tasks EXCEPT
                   ![k] = worker_result(directory, batch_paths(batches[k]))]
    /\ UNCHANGED <<parseVars, walkVars, max_threads, bpc, directory, file_paths, files,
                   files_remaining, batches, joined, rounds>>

\* Lines 325-340: the driver joins the next worker in spawn order, appends
\* its records on Ok and logs on Err; after the last join the scope ends and
\* the loop is tested again.
Join ==
    /\ bpc = "scope"
    /\ joined < Len(tasks)
    /\ tasks[joined + 1].state # "running"
    /\ files' = files \o tasks[joined + 1].docs
    /\ joined' = joined + 1
    /\ bpc' = IF joined + 1 = Len(tasks) THEN "loop" ELSE "scope"
    /\ UNCHANGED <<parseVars, walkVars, max_threads, directory, file_paths, files_remaining,
                   batches, tasks, rounds>>

\* Lines 343-351: the only batch is processed on the calling thread; the
\* first failure returns the error, or unwinds when read_from_str panics,
\* and the records pushed before it stay in the vector.
InlineBatch ==
    /\ bpc = "inline"
    /\ LET paths == batch_paths(batches[1])
           bad == {i \in 1..Len(paths) : ~ paths[i].ok}
           stop == IF bad = {} THEN Len(paths) + 1
                   ELSE CHOOSE i \in bad : \A j \in bad : i <= j
       IN  /\ files' = files \o [i \in 1..(stop - 1) |->
                                   inline_document(directory, paths[i])]
           /\ bpc' = IF bad = {} THEN "loop"
                     ELSE IF paths[stop].panics THEN "parse_panic"
                     ELSE "err"
    /\ UNCHANGED <<parseVars, walkVars, max_threads, directory, file_paths, files_remaining,
                   batches, tasks, joined, rounds>>

\* Lines 267 and 355: the loop ends and process_files returns Ok(()).
ReturnOk ==
    /\ bpc = "loop"
    /\ files_remaining = 0
    /\ bpc' = "done"
    /\ UNCHANGED <<parseVars, walkVars, max_threads, directory, file_paths, files, files_remaining,
                   batches, tasks, joined, rounds>>

BatchNext ==
    \/ FormBatches
    \/ \E k \in 1..MaxThreads : k <= Len(tasks) /\ WorkerRun(k)
    \/ Join
    \/ InlineBatch
    \/ ReturnOk

\* The state of a process_files call as it starts (lines 263-265).
BatchCall(dir_id, paths) ==
    /\ bpc' = "loop"
    /\ directory' = dir_id
    /\ file_paths' = paths
    /\ files' = <<>>
    /\ files_remaining' = Len(paths)
    /\ batches' = <<>>
    /\ tasks' = <<>>
    /\ joined' = 0
    /\ rounds' = 0

\* ------------------------------------------------------------------ the filesystem

(***************************************************************************)
(* A directory path is a sequence of segments; a file is named by a        *)
(* natural number that stands for its final segment, extension included.   *)
(* fs.roots is config.directories; fs.tree maps a directory path to its    *)
(* sub-directory names and its files, in the order read_dir yields them.   *)
(***************************************************************************)
NameUpperMd == 1001     \* "c.MD"

NameTxt == 1002         \* "readme.txt"

NameNoExt == 1003       \* "noext"

\* Path::extension of a final segment; "" stands for no extension.
extension(name) ==
    CASE name = NameUpperMd -> "MD"
      [] name = NameTxt -> "txt"
      [] name = NameNoExt -> ""
      [] OTHER -> "md"

\* Path::components: the segments of a path, those that are "." left out.
components(path) == SelectSeq(path, LAMBDA seg : seg # ".")

\* Lines 154-159, Path::file_name of a directory path: the last component if
\* it is a normal one; a path that ends in ".." or has no component ("/",
\* ".") has none.
path_file_name(path) ==
    LET c == components(path)
    IN  IF c = <<>> THEN None
        ELSE IF c[Len(c)] = ".." THEN None
        ELSE Some(c[Len(c)])

\* A directory name whose bytes are no valid UTF-8.
NotUtf8Name == "not-utf-8"

\* Lines 163-167, OsStr::to_str.
to_str(name) == IF name = NotUtf8Name THEN None ELSE Some(name)

\* Lines 154-167: the path has no dir_name the walker can use.
invalid_directory(path) ==
    IF path_file_name(path) = None THEN TRUE
    ELSE to_str(path_file_name(path)[1]) = None

\* Lines 154-167: dir_name, of a path that has one.
dir_name(path) == path_file_name(path)[1]

\* Lines 197-217: the entries kept as Markdown files, in order.
markdown_entries(entries) ==
    SelectSeq(entries, LAMBDA e : extension(document_name(e.path)) = "md")

\* Lines 211-215: the file names handed to list_document_in_dir.
entry_names(entries) ==
    {document_name(entries[i].path) : i \in 1..Len(entries)}

\* Vec::swap_remove(idx), idx counted from 1.
swap_remove(v, idx) ==
    IF idx = Len(v) THEN SubSeq(v, 1, Len(v) - 1)
    ELSE SubSeq(v, 1, idx - 1) \o <<v[Len(v)]>>
         \o SubSeq(v, idx + 1, Len(v) - 1)

\* Lines 225-241: one item of existing: the first path whose final segment
\* is the item's file name is swap-removed and counted.
remove_one(acc, item) ==
    LET hits == {i \in 1..Len(acc.files) :
                    document_name(acc.files[i].path) = item.file_name}
    IN  IF hits = {} THEN acc
        ELSE [files |-> swap_remove(acc.files,
                                    CHOOSE i \in hits : \A j \in hits : i <= j),
              count |-> acc.count + 1]

\* Lines 223-242: the loop over existing, items lo..hi.
RECURSIVE remove_range(_, _, _, _)
remove_range(acc, existing, lo, hi) ==
    IF lo > hi THEN acc
    ELSE IF lo = hi THEN remove_one(acc, existing[lo])
    ELSE LET mid == (lo + hi) \div 2
             left == remove_range(acc, existing, lo, mid)
         IN  IF left.count >= 0
             THEN remove_range(left, existing, mid + 1, hi)
             ELSE left

\* Lines 223-242: markdown_files and amt_files_existing after the loop.
remove_existing(markdown_files, existing) ==
    remove_range([files |-> markdown_files, count |-> 0], existing,
                 1, Len(existing))

\* ------------------------------------------------------------------ the catalog gateway

(***************************************************************************)
(* crate::db::Database, from its contract.  A Directory row is             *)
(* [id, name, parent, path]; a Document row is [file_name, directory,      *)
(* path].  Identifiers are naturals handed out from next_id.               *)
(***************************************************************************)
EmptyCatalog == [dirs |-> {}, docs |-> {}]

\* get_root_dir_by_name: the root row of that name, if any.
db_get_root_dir_by_name(cat, name) ==
    LET hit == {d \in cat.dirs : d.parent = None /\ d.name = name}
    IN  IF hit = {} THEN None ELSE Some(CHOOSE d \in hit : TRUE)

\* get_dir_by_name_and_parent: the row of that name under that parent.
db_get_dir_by_name_and_parent(cat, name, parent_id) ==
    LET hit == {d \in cat.dirs : d.parent = Some(parent_id) /\ d.name = name}
    IN  IF hit = {} THEN None ELSE Some(CHOOSE d \in hit : TRUE)

\* insert_dir: a row with a fresh identifier; (name, parent) is unique.
db_insert_dir(cat, id, path, name, parent) ==
    LET row == [id |-> id, name |-> name, parent |-> parent, path |-> path]
        taken == \E d \in cat.dirs : d.parent = parent /\ d.name = name
    IN  IF taken THEN [ok |-> FALSE, catalog |-> cat, row |-> row]
        ELSE [ok |-> TRUE, catalog |-> [cat EXCEPT !.dirs = @ \cup {row}],
              row |-> row]

\* list_document_in_dir: the rows of the directory whose file name is
\* among the candidates.
db_list_document_in_dir(cat, dir_id, names) ==
    {d \in cat.docs : d.directory = dir_id /\ d.file_name \in names}

\* insert_doc: (directory, file_name) is unique.
db_insert_doc(cat, doc) ==
    LET taken == \E d \in cat.docs :
                    d.directory = doc.directory /\ d.file_name = doc.file_name
    IN  IF taken THEN [ok |-> FALSE, catalog |-> cat]
        ELSE [ok |-> TRUE, catalog |-> [cat EXCEPT !.docs = @ \cup {doc}]]

\* The rows under the root rows `gone`, those included.
RECURSIVE db_descendants(_, _)
db_descendants(cat, gone) ==
    LET more == {d \in cat.dirs :
                    d.parent # None /\ \E g \in gone : d.parent = Some(g.id)}
    IN  IF more \subseteq gone THEN gone
        ELSE db_descendants(cat, gone \cup more)

\* trim_unused: every root row whose path is not configured goes, with
\* its descendants and their documents.
db_trim_unused(cat, root_paths) ==
    LET gone == db_descendants(cat,
                    {d \in cat.dirs : d.parent = None /\ d.path \notin root_paths})
        ids == {d.id : d \in gone}
    IN  [dirs |-> cat.dirs \ gone,
         docs |-> {d \in cat.docs : d.directory \notin ids}]

\* The orders a result set may come back in: every order of a small set,
\* ascending and descending by file name for a larger one.
SmallResult == 3

ResultOrders(rows) ==
    LET n == Cardinality(rows)
        names == {r.file_name : r \in rows}
        lo == CHOOSE x \in names : \A y \in names : x <= y
        hi == CHOOSE x \in names : \A y \in names : x >= y
        sorted == SelectSeq([k \in 1..(hi - lo + 1) |-> lo + k - 1],
                            LAMBDA x : x \in names)
        asc == [i \in 1..n |-> CHOOSE r \in rows : r.file_name = sorted[i]]
    IN  IF n <= SmallResult
        THEN {q \in [1..n -> rows] : \A i, j \in 1..n : i # j => q[i] # q[j]}
        ELSE {asc, [i \in 1..n |-> asc[n + 1 - i]]}

\* ------------------------------------------------------------------ inputs of the batcher

\* Longest list handed to the batcher on its own.
MaxFiles == 300

BigDir == <<"big">>

\* A regular file i of the directory d, which can be read and parsed or
\* cannot be read; err is the error Document::new returns on it.
RegularFile(d, i, ok) ==
    [path |-> <<d, i>>, canon |-> <<d, i>>, ok |-> ok, panics |-> FALSE,
     err |-> IF ok THEN None ELSE Some("Io")]

\* A regular file i of the directory d whose front-matter serde_yaml rejects.
UnparseableFile(d, i) ==
    [path |-> <<d, i>>, canon |-> <<d, i>>, ok |-> FALSE, panics |-> FALSE,
     err |-> Some("SerdeYaml")]

\* A regular file i of the directory d on whose text read_from_str panics.
PanickingFile(d, i) ==
    [path |-> <<d, i>>, canon |-> <<d, i>>, ok |-> FALSE, panics |-> TRUE,
     err |-> None]

\* File i enumerated under /link, a symbolic link to the directory /real.
LinkedFile(i, ok) ==
    [path |-> <<<<"link">>, i>>, canon |-> <<<<"real">>, i>>, ok |-> ok,
     panics |-> FALSE, err |-> IF ok THEN None ELSE Some("Io")]

\* The lengths the batcher is tried on.
BatchSizes ==
    {0, 1, 2, FILES_PER_THREAD - 1, FILES_PER_THREAD, FILES_PER_THREAD + 1,
     2 * FILES_PER_THREAD, 2 * FILES_PER_THREAD + 1, MaxFiles}

\* The failing files the batcher is tried on, for a list of n paths.
BadSets(n) ==
    {{}} \cup {{i} : i \in {1, 2, n} \cap 1..n}
         \cup {{i, n} : i \in {FILES_PER_THREAD + 72} \cap 1..(n - 1)}

\* No process_files call is under way.
BatchAtRest ==
    /\ bpc = "idle"
    /\ directory = 0
    /\ file_paths = <<>>
    /\ files = <<>>
    /\ files_remaining = 0
    /\ batches = <<>>
    /\ tasks = <<>>
    /\ joined = 0
    /\ rounds = 0

BatchInit ==
    /\ max_threads \in 1..MaxThreads
    /\ \E n \in BatchSizes : \E bad \in BadSets(n) :
          \/ file_paths = [i \in 1..n |-> RegularFile(BigDir, i, i \notin bad)]
          \/ file_paths = [i \in 1..n |-> LinkedFile(i, i \notin bad)]
          \/ file_paths = [i \in 1..n |->
                              IF i \in bad THEN PanickingFile(BigDir, i)
                              ELSE RegularFile(BigDir, i, TRUE)]
          \/ file_paths = [i \in 1..n |->
                              IF i \in bad THEN UnparseableFile(BigDir, i)
                              ELSE RegularFile(BigDir, i, TRUE)]
    /\ bpc = "loop"
    /\ directory = 1
    /\ files = <<>>
    /\ files_remaining = Len(file_paths)
    /\ batches = <<>>
    /\ tasks = <<>>
    /\ joined = 0
    /\ rounds = 0

BatchIdle ==
    /\ max_threads = 1
    /\ BatchAtRest

\* ------------------------------------------------------------------ claims on the batcher

\* The records of the output made from the input path e.
RecordsOf(e) ==
    {j \in 1..Len(files) :
        files[j] \in {inline_document(directory, e),
                      worker_document(directory, e)}}

\* C5: batcher completeness: when every path of the input is readable and
\* parseable, process_files returns with exactly one record per input path
\* in the output: none missing, none twice.
C5_BatcherComplete ==
    (bpc = "done" /\ \A i \in 1..Len(file_paths) : file_paths[i].ok) =>
        /\ Len(files) = Len(file_paths)
        /\ \A i \in 1..Len(file_paths) :
              Cardinality(RecordsOf(file_paths[i])) = 1

\* ------------------------------------------------------------------ the walker

\* Process runs followed: the first and the runs after a restart.
MaxRuns == 2

\* Failures the environment injects in one behaviour.
MaxFaults == 1

\* An invocation that is handed an identifier no row has.
Frame_orphan(path, parent) ==
    [path |-> path, parent |-> IF parent = None THEN None ELSE Some(0),
     pc |-> "lookup", dir_id |-> 0, sub_i |-> 1, ins_i |-> 1]

\* A process_directory invocation: its arguments, its position, the
\* identifier of directory_entry, and the positions of its two loops.
Frame(path, parent) ==
    [path |-> path, parent |-> parent, pc |-> "lookup", dir_id |-> 0,
     sub_i |-> 1, ins_i |-> 1]

Top == stack[Len(stack)]

Pop(stk) == SubSeq(stk, 1, Len(stk) - 1)

SetTop(stk, f) == [stk EXCEPT ![Len(stk)] = f]

\* Path::canonicalize of a directory of the model.
canonicalize(path) == fs.tree[path].canon

\* Lines 169-185: the lookup the invocation makes for its directory.
lookup_dir_blind(cat, f) == None

lookup_dir(cat, f) ==
    IF f.parent = None
    THEN db_get_root_dir_by_name(cat, dir_name(f.path))
    ELSE db_get_dir_by_name_and_parent(cat, dir_name(f.path), f.parent[1])

\* The `?` of line 189 ignored: the caller goes on with its loop.
after_child_err_ignored(stk, err) == [stack |-> stk, werr |-> None]

\* The `?` of line 189: the caller of a failed invocation returns the error.
after_child_err(stk, err) == [stack |-> Pop(stk), werr |-> err]

\* A gateway call as the history keeps it.
NoCall == [op |-> "none", key |-> <<>>, found |-> FALSE, fresh |-> TRUE,
           depth |-> 0]

GatewayCall(op, key, found, fresh) ==
    [op |-> op, key |-> key, found |-> found, fresh |-> fresh,
     depth |-> Len(stack)]

\* The history of one more gateway call; inserts are counted per run.
Issue(c) ==
    /\ calls' = calls + 1
    /\ last' = <<last[2], c>>
    /\ ins' = IF c.op \in {"insert_dir", "insert_doc"}
              THEN [ins EXCEPT ![run] = @ + 1] ELSE ins

\* Whether the environment may fail the operation that starts now.
FaultChoices ==
    IF faults_left > 0 THEN {FALSE, TRUE} ELSE {FALSE}

Injected ==
    /\ faults_left' = faults_left - 1
    /\ clean' = [clean EXCEPT ![run] = FALSE]

NotInjected == UNCHANGED <<faults_left, clean>>

\* No process_files call is under way after the step.
BatchReset ==
    /\ bpc' = "idle"
    /\ directory' = 0
    /\ file_paths' = <<>>
    /\ files' = <<>>
    /\ files_remaining' = 0
    /\ batches' = <<>>
    /\ tasks' = <<>>
    /\ joined' = 0
    /\ rounds' = 0

BatchKept ==
    UNCHANGED <<bpc, directory, file_paths, files, files_remaining, batches,
                tasks, joined, rounds>>

\* The innermost invocation is at pc and nothing keeps it from its next step.
At(pc) ==
    /\ mpc = "roots"
    /\ werr = None
    /\ stack # <<>>
    /\ Top.pc = pc

\* The innermost invocation returns Err(kind).
Fail(kind) ==
    /\ stack' = Pop(stack)
    /\ werr' = Some(kind)

\* main.rs lines 41-44: the roots no longer configured are pruned; a
\* failure panics.
TrimUnused ==
    /\ mpc = "start"
    /\ \E fail \in FaultChoices :
          /\ Issue(GatewayCall("trim_unused", <<>>, FALSE, TRUE))
          /\ IF fail
             THEN /\ Injected
                  /\ mpc' = "crashed"
                  /\ UNCHANGED catalog
             ELSE /\ NotInjected
                  /\ mpc' = "roots"
                  /\ catalog' = db_trim_unused(catalog,
                                   {fs.roots[i] : i \in 1..Len(fs.roots)})
    /\ root_i' = 0
    /\ BatchKept
    /\ UNCHANGED <<parseVars, max_threads, fs, next_id, stack, werr, run>>

\* main.rs lines 46-47: process_directory is called on the next root.
WalkRoot ==
    /\ mpc = "roots"
    /\ werr = None
    /\ stack = <<>>
    /\ root_i < Len(fs.roots)
    /\ stack' = <<Frame(fs.roots[root_i + 1], None)>>
    /\ root_i' = root_i + 1
    /\ BatchKept
    /\ UNCHANGED <<parseVars, max_threads, fs, catalog, next_id, mpc, werr,
                   run, faults_left, calls, ins, clean, last>>

\* Lines 149-153: read_dir or canonicalize fails and the invocation returns
\* the error before any gateway call.
EnterFails ==
    /\ At("lookup")
    /\ faults_left > 0
    /\ Injected
    /\ Fail("Io")
    /\ BatchKept
    /\ UNCHANGED <<parseVars, max_threads, fs, catalog, next_id, mpc, root_i,
                   run, calls, ins, last>>

\* Lines 154-167: the path has no final segment, or one that is no UTF-8,
\* and the invocation returns InvalidDirectory before any gateway call.
InvalidDirectory ==
    /\ At("lookup")
    /\ invalid_directory(Top.path)
    /\ Fail("InvalidDirectory")
    /\ BatchKept
    /\ UNCHANGED <<parseVars, max_threads, fs, catalog, next_id, mpc, root_i,
                   run, faults_left, calls, ins, clean, last>>

\* Lines 169-185, the lookup: found, its row is directory_entry; absent, the
\* insert follows; failed, the invocation returns the error.
Lookup ==
    /\ At("lookup")
    /\ ~ invalid_directory(Top.path)
    /\ LET f == Top
           hit == lookup_dir(catalog, f)
       IN  \E fail \in FaultChoices :
              /\ Issue(GatewayCall("lookup", <<dir_name(f.path), f.parent>>,
                                   hit # None, TRUE))
              /\ IF fail
                 THEN Injected /\ Fail("Sqlx")
                 ELSE /\ NotInjected
                      /\ werr' = werr
                      /\ stack' = SetTop(stack,
                            IF hit = None
                            THEN [f EXCEPT !.pc = "insert_dir"]
                            ELSE [f EXCEPT !.pc = "recurse",
                                           !.dir_id = hit[1].id])
    /\ BatchKept
    /\ UNCHANGED <<parseVars, max_threads, fs, catalog, next_id, mpc, root_i,
                   run>>

\* Lines 175 and 182: insert_dir with the canonical path, the name and the
\* parent; its row is directory_entry.
InsertDir ==
    /\ At("insert_dir")
    /\ LET f == Top
           r == db_insert_dir(catalog, next_id, canonicalize(f.path),
                              dir_name(f.path), f.parent)
       IN  \E fail \in FaultChoices :
              /\ Issue(GatewayCall("insert_dir",
                                   <<dir_name(f.path), f.parent>>, FALSE, r.ok))
              /\ IF fail \/ ~ r.ok
                 THEN /\ IF fail THEN Injected ELSE NotInjected
                      /\ Fail("Sqlx")
                      /\ UNCHANGED <<catalog, next_id>>
                 ELSE /\ NotInjected
                      /\ werr' = werr
                      /\ catalog' = r.catalog
                      /\ next_id' = next_id + 1
                      /\ stack' = SetTop(stack,
                            [f EXCEPT !.pc = "recurse", !.dir_id = r.row.id])
    /\ BatchKept
    /\ UNCHANGED <<parseVars, max_threads, fs, mpc, root_i, run>>

\* Lines 187-191: the next sub-directory is walked, with directory_entry.id
\* as its parent.
Recurse ==
    /\ At("recurse")
    /\ LET f == Top
           subdirs == fs.tree[f.path].subdirs
       IN  /\ f.sub_i <= Len(subdirs)
           /\ stack' = Append(SetTop(stack, [f EXCEPT !.sub_i = @ + 1]),
                              Frame(f.path \o <<subdirs[f.sub_i]>>,
                                    Some(f.dir_id)))
    /\ BatchKept
    /\ UNCHANGED <<parseVars, max_threads, fs, catalog, next_id, mpc, root_i,
                   werr, run, faults_left, calls, ins, clean, last>>

\* Lines 193-244: the Markdown entries are collected, the known ones are
\* listed and removed, and process_files is called on the rest.
ListDocuments ==
    /\ At("recurse")
    /\ LET f == Top
           markdown_files == markdown_entries(fs.tree[f.path].files)
           rows == db_list_document_in_dir(catalog, f.dir_id,
                                           entry_names(markdown_files))
       IN  /\ f.sub_i > Len(fs.tree[f.path].subdirs)
           /\ \E fail \in FaultChoices :
                 /\ Issue(GatewayCall("list", <<f.dir_id>>, rows # {}, TRUE))
                 /\ IF fail
                    THEN Injected /\ Fail("Sqlx") /\ BatchKept
                    ELSE /\ NotInjected
                         /\ werr' = werr
                         /\ stack' = SetTop(stack, [f EXCEPT !.pc = "files"])
                         /\ \E existing \in ResultOrders(rows) :
                               BatchCall(f.dir_id,
                                   remove_existing(markdown_files,
                                                   existing).files)
    /\ UNCHANGED <<parseVars, max_threads, fs, catalog, next_id, mpc, root_i,
                   run>>

\* Lines 247-249: the next record of files_processed is inserted.
InsertDoc ==
    /\ At("files")
    /\ bpc = "done"
    /\ Top.ins_i <= Len(files)
    /\ LET f == Top
           doc == files[f.ins_i]
           r == db_insert_doc(catalog, doc)
       IN  \E fail \in FaultChoices :
              /\ Issue(GatewayCall("insert_doc",
                                   <<doc.directory, doc.file_name>>,
                                   FALSE, r.ok))
              /\ IF fail \/ ~ r.ok
                 THEN /\ IF fail THEN Injected ELSE NotInjected
                      /\ Fail("Sqlx")
                      /\ BatchReset
                      /\ UNCHANGED catalog
                 ELSE /\ NotInjected
                      /\ werr' = werr
                      /\ catalog' = r.catalog
                      /\ stack' = SetTop(stack, [f EXCEPT !.ins_i = @ + 1])
                      /\ BatchKept
    /\ UNCHANGED <<parseVars, max_threads, fs, next_id, mpc, root_i, run>>

\* Line 255: every record is inserted and the invocation returns Ok(()).
ReturnDir ==
    /\ At("files")
    /\ bpc = "done"
    /\ Top.ins_i > Len(files)
    /\ stack' = Pop(stack)
    /\ BatchReset
    /\ UNCHANGED <<parseVars, max_threads, fs, catalog, next_id, mpc, root_i,
                   werr, run, faults_left, calls, ins, clean, last>>

\* Lines 344-349: the error the in-line loop returned, that of the first
\* file of the batch that fails.
process_files_err == first_failure(batch_paths(batches[1])).err[1]

\* Line 244 were the directory's row deleted when process_files fails.
ProcessFilesErr_compensating ==
    /\ At("files")
    /\ bpc = "err"
    /\ Fail(process_files_err)
    /\ BatchReset
    /\ catalog' = [catalog EXCEPT !.dirs = {d \in @ : d.id # Top.dir_id}]
    /\ UNCHANGED <<parseVars, max_threads, fs, next_id, mpc, root_i,
                   run, faults_left, calls, ins, clean, last>>

\* Line 244: process_files returned Err and the `?` returns it.
ProcessFilesErr ==
    /\ At("files")
    /\ bpc = "err"
    /\ Fail(process_files_err)
    /\ BatchReset
    /\ UNCHANGED <<parseVars, max_threads, fs, catalog, next_id, mpc, root_i,
                   run, faults_left, calls, ins, clean, last>>

\* Line 244: process_files panicked; the process dies.
ProcessFilesPanic ==
    /\ At("files")
    /\ bpc \in {"panic", "parse_panic"}
    /\ mpc' = "crashed"
    /\ stack' = <<>>
    /\ BatchReset
    /\ UNCHANGED <<parseVars, max_threads, fs, catalog, next_id, root_i, werr,
                   run, faults_left, calls, ins, clean, last>>

\* Line 189: the caller of an invocation that returned Err returns it too.
Propagate ==
    /\ mpc = "roots"
    /\ werr # None
    /\ stack # <<>>
    /\ LET r == after_child_err(stack, werr)
       IN  stack' = r.stack /\ werr' = r.werr
    /\ BatchKept
    /\ UNCHANGED <<parseVars, max_threads, fs, catalog, next_id, mpc, root_i,
                   run, faults_left, calls, ins, clean, last>>

\* main.rs line 49: expect panics on the Err of a root's walk.
Crash ==
    /\ mpc = "roots"
    /\ werr # None
    /\ stack = <<>>
    /\ mpc' = "crashed"
    /\ BatchKept
    /\ UNCHANGED <<parseVars, max_threads, fs, catalog, next_id, root_i,
                   stack, werr, run, faults_left, calls, ins, clean, last>>

\* main.rs lines 50-79: every root is walked and the server starts.
Serve ==
    /\ mpc = "roots"
    /\ werr = None
    /\ stack = <<>>
    /\ root_i = Len(fs.roots)
    /\ mpc' = "serving"
    /\ BatchKept
    /\ UNCHANGED <<parseVars, max_threads, fs, catalog, next_id, root_i,
                   stack, werr, run, faults_left, calls, ins, clean, last>>

\* main.rs line 24: the process is started again over the same catalog.
Restart ==
    /\ mpc \in {"serving", "crashed"}
    /\ run < MaxRuns
    /\ run' = run + 1
    /\ mpc' = "start"
    /\ root_i' = 0
    /\ stack' = <<>>
    /\ werr' = None
    /\ calls' = 0
    /\ last' = <<NoCall, NoCall>>
    /\ BatchKept
    /\ UNCHANGED <<parseVars, max_threads, fs, catalog, next_id, faults_left,
                   ins, clean>>

\* ------------------------------------------------------------------ inputs of the walker

Notes == <<"notes">>

NotesSub == <<"notes", "sub">>

NotesDeep == <<"notes", "sub", "deep">>

NotesSub2 == <<"notes", "sub2">>

\* A directory of the tree that is no symbolic link.
Dir(path, subdirs, entries) ==
    [canon |-> path, subdirs |-> subdirs, files |-> entries]

\* /notes with a.md, c.MD, readme.txt and noext, /notes/sub with b.md and
\* a.md, /notes/sub/deep with d.md, /notes/sub2 with e.md; the files of
\* `bad` cannot be read, serde_yaml rejects those of `unparseable`, and on
\* those of `panicking` read_from_str panics.
SmallTree(bad, unparseable, panicking) ==
    LET file(d, i) == IF <<d, i>> \in panicking THEN PanickingFile(d, i)
                      ELSE IF <<d, i>> \in unparseable
                      THEN UnparseableFile(d, i)
                      ELSE RegularFile(d, i, <<d, i>> \notin bad)
    IN  [roots |-> <<Notes>>,
         tree  |-> (Notes :> Dir(Notes, <<"sub", "sub2">>,
                                 <<file(Notes, 1), file(Notes, NameUpperMd),
                                   file(Notes, NameTxt),
                                   file(Notes, NameNoExt)>>))
                @@ (NotesSub :> Dir(NotesSub, <<"deep">>,
                                    <<file(NotesSub, 5), file(NotesSub, 1)>>))
                @@ (NotesDeep :> Dir(NotesDeep, <<>>, <<file(NotesDeep, 6)>>))
                @@ (NotesSub2 :> Dir(NotesSub2, <<>>, <<file(NotesSub2, 7)>>))]

ANotes == <<"a", "notes">>

BNotes == <<"b", "notes">>

\* The configured root "/".
SlashRoot == [roots |-> <<<<>>>>, tree |-> (<<>> :> Dir(<<>>, <<>>, <<>>))]

\* The path /notes/.., which is the directory "/".
NotesUp == <<"notes", "..">>

\* The configured root "/notes/..".
DotDotRoot ==
    [roots |-> <<NotesUp>>, tree |-> (NotesUp :> Dir(<<>>, <<>>, <<>>))]

\* The path /notes/., which is the directory /notes.
NotesDot == <<"notes", ".">>

\* The configured root "/notes/.", holding 1.md.
DotRoot ==
    [roots |-> <<NotesDot>>,
     tree  |-> (NotesDot :> Dir(<<"notes">>, <<>>,
                                <<[path |-> <<NotesDot, 1>>,
                                   canon |-> <<<<"notes">>, 1>>,
                                   ok |-> TRUE, panics |-> FALSE,
                                   err |-> None]>>))]

Odd == <<"odd">>

\* /odd with 1.md and a sub-directory whose name is no UTF-8.
OddTree ==
    [roots |-> <<Odd>>,
     tree  |-> (Odd :> Dir(Odd, <<NotUtf8Name>>, <<RegularFile(Odd, 1, TRUE)>>))
            @@ (Odd \o <<NotUtf8Name>> :>
                    Dir(Odd \o <<NotUtf8Name>>, <<>>, <<>>))]

\* Two configured roots whose final segment is the same.
TwinRoots ==
    [roots |-> <<ANotes, BNotes>>,
     tree  |-> (ANotes :> Dir(ANotes, <<>>, <<RegularFile(ANotes, 1, TRUE),
                                              RegularFile(ANotes, 7, TRUE)>>))
            @@ (BNotes :> Dir(BNotes, <<>>, <<RegularFile(BNotes, 1, TRUE),
                                              RegularFile(BNotes, 9, TRUE)>>))]

LinkPath == <<"link">>

RealPath == <<"real">>

\* One configured root that is a symbolic link to the directory /real.
LinkRoot ==
    [roots |-> <<LinkPath>>,
     tree  |-> (LinkPath :> [canon |-> RealPath, subdirs |-> <<>>,
                             files |-> <<[path |-> <<LinkPath, 1>>,
                                          canon |-> <<RealPath, 1>>,
                                          ok |-> TRUE,
                                          panics |-> FALSE,
                                          err |-> None]>>])]

\* One root with n Markdown files, those of `bad` unreadable.
BigTree(n, bad) ==
    [roots |-> <<BigDir>>,
     tree  |-> (BigDir :> Dir(BigDir, <<>>,
                    [i \in 1..n |-> RegularFile(BigDir, i, i \notin bad)]))]

\* The sizes and failing files of the big directory.
BigSizes ==
    {FILES_PER_THREAD + 1, 2 * FILES_PER_THREAD, 2 * FILES_PER_THREAD + 1}

BigBadSets(n) ==
    {{}, {n}} \cup
    {{FILES_PER_THREAD + 72, n} : i \in {1} \cap 1..(n - 2 * FILES_PER_THREAD)}

\* A catalog left by a configuration with the root /old.
StaleCatalog ==
    [dirs |-> {[id |-> 1, name |-> "old", parent |-> None,
                path |-> <<"old">>]},
     docs |-> {document_new(1, 1, <<<<"old">>, 1>>)}]

\* The runs followed: a tree, the host's parallelism, the catalog found at
\* the first start and the failures the environment may inject.
Scenarios ==
    [fs : {SmallTree({}, {}, {}), SmallTree({<<NotesSub, 1>>}, {}, {}),
          SmallTree({}, {<<NotesSub, 1>>}, {}),
          SmallTree({}, {}, {<<NotesSub, 1>>})},
     max_threads : {1}, catalog : {EmptyCatalog, StaleCatalog},
     faults : {0, MaxFaults}]
    \cup [fs : {TwinRoots, LinkRoot, SlashRoot, DotDotRoot, DotRoot, OddTree},
          max_threads : {1},
          catalog : {EmptyCatalog}, faults : {0}]
    \cup UNION {{[fs |-> BigTree(n, bad), max_threads |-> mt,
                  catalog |-> EmptyCatalog, faults |-> 0] :
                    bad \in BigBadSets(n), mt \in 1..MaxThreads} :
                n \in BigSizes}

WalkInit ==
    /\ \E sc \in Scenarios :
          /\ fs = sc.fs
          /\ max_threads = sc.max_threads
          /\ catalog = sc.catalog
          /\ faults_left = sc.faults
    /\ next_id = 2
    /\ mpc = "start"
    /\ root_i = 0
    /\ stack = <<>>
    /\ werr = None
    /\ run = 1
    /\ calls = 0
    /\ ins = [r \in 1..MaxRuns |-> 0]
    /\ clean = [r \in 1..MaxRuns |-> TRUE]
    /\ last = <<NoCall, NoCall>>

\* The walker is not in use.
WalkIdle ==
    /\ fs = [roots |-> <<>>, tree |-> <<>>]
    /\ catalog = EmptyCatalog
    /\ next_id = 2
    /\ mpc = "idle"
    /\ root_i = 0
    /\ stack = <<>>
    /\ werr = None
    /\ run = 1
    /\ faults_left = 0
    /\ calls = 0
    /\ ins = [r \in 1..MaxRuns |-> 0]
    /\ clean = [r \in 1..MaxRuns |-> TRUE]
    /\ last = <<NoCall, NoCall>>

\* ------------------------------------------------------------------ claims on the walker

\* C1: idempotence of ingestion: a run that follows a run in which nothing
\* failed in the environment issues no insert_dir and no insert_doc.
C1_Idempotent ==
    \A r \in 2..MaxRuns : (run >= r /\ clean[r - 1]) => ins[r] = 0

\* The Directory row the walker reaches for a directory of the tree.
RECURSIVE resolve(_, _)
resolve(cat, path) ==
    IF \E i \in 1..Len(fs.roots) : fs.roots[i] = path
    THEN db_get_root_dir_by_name(cat, dir_name(path))
    ELSE LET up == resolve(cat, Pop(path))
         IN  IF up = None THEN None
             ELSE db_get_dir_by_name_and_parent(cat, dir_name(path),
                                                up[1].id)

\* The file e of the directory has a Document row: a row of the directory's
\* row that carries the file's name and the file's path, as enumerated or
\* canonicalised.
HasRow(path, e) ==
    LET d == resolve(catalog, path)
    IN  /\ d # None
        /\ \E doc \in catalog.docs :
              /\ doc.directory = d[1].id
              /\ doc.file_name = document_name(e.path)
              /\ doc.path \in {e.path, e.canon}

IsMarkdown(e) == extension(document_name(e.path)) = "md"

EntriesOf(path) == fs.tree[path].files

\* C2: extension filter: after a run that completed, a file of the walked
\* trees has a Document row if and only if its extension is exactly md.
C2_ExtensionFilter ==
    mpc = "serving" =>
        \A path \in DOMAIN fs.tree : \A i \in 1..Len(EntriesOf(path)) :
            HasRow(path, EntriesOf(path)[i]) <=> IsMarkdown(EntriesOf(path)[i])

\* C3: file-name uniqueness: no two Document rows share (directory,
\* file_name), and every insert_doc the walker submits is for a pair that is
\* not in the catalog.
C3_FileNameUnique ==
    /\ \A d1, d2 \in catalog.docs :
          (d1.directory = d2.directory /\ d1.file_name = d2.file_name)
              => d1 = d2
    /\ last[2].op = "insert_doc" => last[2].fresh

\* C4: directory-tree uniqueness: no two Directory rows share (parent, name),
\* and every insert_dir follows, in the same invocation, the lookup of the
\* same (name, parent) that found nothing, and is for a pair not in the
\* catalog.
C4_DirectoryUnique ==
    /\ \A d1, d2 \in catalog.dirs :
          (d1.parent = d2.parent /\ d1.name = d2.name) => d1 = d2
    /\ last[2].op = "insert_dir" =>
          /\ last[1].op = "lookup"
          /\ last[1].key = last[2].key
          /\ last[1].depth = last[2].depth
          /\ ~ last[1].found
          /\ last[2].fresh

\* A sub-directory was inserted below rows that were there before.
C4_Witness ==
    /\ last[2].op = "insert_dir"
    /\ last[2].key[2] # None
    /\ Cardinality(catalog.dirs) >= 3

\* C10: failure propagation: the step in which a gateway call, the
\* canonicalisation or an insert fails returns the error from the invocation
\* with the catalog untouched, and from then on every step only returns the
\* error from the next caller, up to main: no gateway call, no sub-directory,
\* no insert.
C10_FailurePropagates ==
    [][/\ (mpc = "roots" /\ werr = None /\ werr' # None) =>
              /\ stack' = Pop(stack)
              /\ catalog' = catalog
       /\ (mpc = "roots" /\ (faults_left' < faults_left \/ ~ last'[2].fresh)) =>
              werr' # None
       /\ (mpc = "roots" /\ werr # None) =>
              /\ calls' = calls
              /\ ins' = ins
              /\ catalog' = catalog
              /\ werr' = werr
              /\ \/ stack # <<>> /\ stack' = Pop(stack) /\ mpc' = mpc
                 \/ stack = <<>> /\ stack' = stack /\ mpc' = "crashed"]_vars

\* An error on its way up, in a caller that has a sub-directory left.
C10_Witness ==
    /\ mpc = "roots"
    /\ werr # None
    /\ stack # <<>>
    /\ Top.pc = "recurse"
    /\ Top.sub_i <= Len(fs.tree[Top.path].subdirs)

\* C11: root invariant at startup: trim_unused has returned before the first
\* process_directory call, the roots are walked one after another in the
\* configured order, and once startup has completed every Directory row
\* without a parent has a path equal to one of the configured roots.
C11_RootInvariant ==
    /\ mpc = "start" => stack = <<>>
    /\ stack # <<>> =>
          /\ mpc = "roots"
          /\ calls >= 1
          /\ root_i >= 1
          /\ stack[1].path = fs.roots[root_i]
    /\ mpc = "serving" =>
          \A d \in catalog.dirs :
              d.parent = None => \E i \in 1..Len(fs.roots) : d.path = fs.roots[i]

\* C12: canonical document path on both batcher paths: every record of the
\* output, made in-line or by a worker, has the canonical path of its file
\* as path and the final segment of the enumerated path as file_name.
C12_CanonicalDocument ==
    \A j \in 1..Len(files) : \E i \in 1..Len(file_paths) :
        files[j] = document_new(directory, document_name(file_paths[i].path),
                                file_paths[i].canon)

\* C13: batcher termination: files_remaining is never decremented below
\* zero: no subtraction panics and the counter never wraps.
C13_NoUnderflow ==
    /\ bpc # "panic"
    /\ files_remaining >= 0

\* The call of scenario 6: 300 paths on a host of four threads.
Scenario6 == Len(file_paths) = 300 /\ max_threads = 4 /\ directory # 0

\* C14 as stated: the 300 paths are processed in three rounds.
C14_ThreeRoundsOriginal ==
    (Scenario6 /\ bpc = "done") => rounds = 3

\* C14: the 300 paths are processed in one round of three batches of 128,
\* 128 and 44 paths that ends in one join barrier, after which the call
\* returns; with every file parseable the output holds 300 records.
C14_OneRound ==
    (Scenario6 /\ rounds >= 1) =>
        /\ rounds = 1
        /\ files_remaining = 0
        /\ batches = <<<<0, 128>>, <<128, 256>>, <<256, 300>>>>
        /\ bpc \in {"scope", "loop", "done"}
        /\ bpc # "scope" => joined = 3
        /\ (bpc = "done" /\ \A i \in 1..300 : file_paths[i].ok)
              => Len(files) = 300

\* The call of scenario 6 has returned with 300 records.
C14_Witness ==
    /\ Scenario6
    /\ bpc = "done"
    /\ Len(files) = 300
    /\ joined = 3

\* The paths of batch k of the round.
PathsOf(k) == batch_paths(batches[k])

Parseable(paths) == \A i \in 1..Len(paths) : paths[i].ok

\* What batch k adds to the output: its records in input order if every
\* file of it is read and parsed, nothing otherwise.
Contribution(k) ==
    IF Parseable(PathsOf(k))
    THEN [i \in 1..Len(PathsOf(k)) |-> worker_document(directory, PathsOf(k)[i])]
    ELSE <<>>

RECURSIVE Contributions(_)
Contributions(k) ==
    IF k = 0 THEN <<>> ELSE Contributions(k - 1) \o Contribution(k)

\* C15: multi-batch error handling: in a round of two or more batches a
\* worker that fails on a file contributes nothing, every other worker's
\* records are all in the output, the call never returns the error, and the
\* rounds after it run and the call returns: it does not abort.
C15_MultiBatchErrors ==
    (rounds >= 1 /\ Len(batches) > 1) =>
        /\ \A k \in 1..Len(tasks) :
              /\ tasks[k].state \in {"err", "panicked"} =>
                    ~ Parseable(PathsOf(k)) /\ tasks[k].docs = <<>>
              /\ tasks[k].state = "ok" => tasks[k].docs = Contribution(k)
        /\ rounds = 1 => files = Contributions(joined)
        /\ bpc # "err"
        /\ (\E k \in 1..Len(tasks) : tasks[k].state \in {"err", "panicked"})
              => bpc # "panic"

\* The output of n whole rounds of the batches of this round.
RECURSIVE WholeRounds(_)
WholeRounds(n) ==
    IF n = 0 THEN <<>>
    ELSE WholeRounds(n - 1) \o Contributions(Len(batches))

\* C17: deterministic output under interleaving: whatever the order in which
\* the workers run and finish, the output is the records of the workers
\* joined so far, batches in spawn order and input order within a batch,
\* after those of the rounds before; a step of a worker leaves the output
\* as it is.
C17_DeterministicOutput ==
    /\ []((rounds >= 1 /\ Len(batches) > 1) =>
              files = WholeRounds(rounds - 1) \o Contributions(joined))
    /\ [][(bpc = "scope" /\ joined' = joined) => files' = files]_vars

\* Two workers or more were joined, the second having finished first or
\* not, and the call returned.
C17_Witness ==
    /\ bpc = "done"
    /\ rounds = 1
    /\ Len(tasks) >= 2
    /\ Len(files) > FILES_PER_THREAD

\* C16: single-batch error handling: a round of one batch runs on the
\* calling thread with no worker; its first failure is returned at once, with
\* only the records of the files before it pushed, and a round that was not
\* failed had no failing file; process_directory then returns the error with
\* no insert_doc issued for the directory.
C16_SingleBatchErrors ==
    /\ [](/\ bpc = "inline" => Len(batches) = 1 /\ tasks = <<>>
          /\ bpc = "scope" => Len(batches) > 1
          /\ (rounds >= 1 /\ Len(batches) = 1 /\ bpc \in {"loop", "done"}) =>
                Parseable(PathsOf(1))
          /\ (rounds >= 1 /\ Len(batches) = 1 /\ bpc # "inline"
                /\ ~ Parseable(PathsOf(1))) => bpc = "err"
          /\ bpc = "err" =>
                /\ Len(batches) = 1 /\ tasks = <<>>
                /\ Len(files) < Len(PathsOf(1))
                /\ ~ PathsOf(1)[Len(files) + 1].ok
                /\ \A i \in 1..Len(files) :
                      files[i] = inline_document(directory, PathsOf(1)[i])
                /\ stack # <<>> => last[2].op = "list")
    /\ [][(bpc = "err" /\ stack # <<>>) =>
             /\ stack' = Pop(stack)
             /\ werr' = PathsOf(1)[Len(files) + 1].err
             /\ ins' = ins
             /\ calls' = calls
             /\ catalog' = catalog]_vars

\* C18: tree integrity at every step: every Document row references a
\* Directory row that exists and every Directory row with a parent
\* references a row that exists.
C18_TreeIntegrity ==
    /\ \A doc \in catalog.docs : \E d \in catalog.dirs : d.id = doc.directory
    /\ \A d \in catalog.dirs :
          d.parent # None => \E up \in catalog.dirs : up.id = d.parent[1]

\* A walk failed and left a Document row and a sub-directory row behind.
C18_Witness ==
    /\ mpc = "crashed"
    /\ catalog.docs # {}
    /\ \E d \in catalog.dirs : d.parent # None

\* C19: the walker is insert-only: every row that is in the catalog before
\* a step of a walk is in it, unchanged, after the step.
C19_InsertOnly ==
    [][mpc = "roots" =>
          /\ catalog.dirs \subseteq catalog'.dirs
          /\ catalog.docs \subseteq catalog'.docs]_vars

\* An error is on its way up and the rows inserted before it are there.
C19_Witness ==
    /\ mpc = "roots"
    /\ werr # None
    /\ catalog.docs # {}
    /\ ins[run] >= 2

\* C20: document/directory path consistency: after startup every Document
\* row's path lies directly inside the path of the Directory row it
\* references.
C20_PathConsistency ==
    mpc = "serving" =>
        \A doc \in catalog.docs : \E d \in catalog.dirs :
            d.id = doc.directory /\ doc.path[1] = d.path

\* ------------------------------------------------------------------ specifications

InitParse == ParseInit /\ BatchIdle /\ WalkIdle

\* read_from_str on every input of ParseInputs.
SpecParse == InitParse /\ [][ParseNext]_vars

InitBatch == BatchInit /\ ParseIdle /\ WalkIdle

\* process_files on every list of BatchInit.
SpecBatch == InitBatch /\ [][BatchNext]_vars

Init == WalkInit /\ BatchAtRest /\ ParseIdle

Next ==
    \/ TrimUnused
    \/ WalkRoot
    \/ EnterFails
    \/ InvalidDirectory
    \/ Lookup
    \/ InsertDir
    \/ Recurse
    \/ ListDocuments
    \/ FormBatches
    \/ \E k \in 1..MaxThreads : k <= Len(tasks) /\ WorkerRun(k)
    \/ Join
    \/ InlineBatch
    \/ ReturnOk
    \/ InsertDoc
    \/ ReturnDir
    \/ ProcessFilesErr
    \/ ProcessFilesPanic
    \/ Propagate
    \/ Crash
    \/ Serve
    \/ Restart

\* main over every scenario of Scenarios, restarts included.
Spec == Init /\ [][Next]_vars

====
